---------------------------- MODULE Spec2Model ----------------------------
(***************************************************************************)
(* create_season_heatmap (src/tools/create_season_heatmap.py): the season  *)
(* aggregation pipeline.  One run of the function is one behaviour: the    *)
(* schedule is fetched, the event loop runs one iteration per step, and    *)
(* the run ends either by raising ValueError (no data) or by building the  *)
(* two heatmap traces of the figure.                                       *)
(*                                                                         *)
(* Values.  Points are integers (the points of the series are multiples    *)
(* of one half, which binary floats add exactly).  A cell of a pivoted     *)
(* frame is [val |-> x] when the frame holds x there and NaN when it holds *)
(* nothing; the string the position frame is filled with is the cell       *)
(* [str |-> "N/A"].  Strings that the code edits (event names) are         *)
(* sequences of characters.                                                *)
(*                                                                         *)
(* Inputs.  Round numbers are unique within a schedule and a driver code   *)
(* occurs at most once in a classification (the provider's tables are      *)
(* keyed by them), so DataFrame.pivot never meets a duplicate entry.  A    *)
(* classification row carries a number of points and its rank as its       *)
(* position.  The schedule may list its rounds in any order.               *)
(*                                                                         *)
(* Library behaviour.  DataFrame.pivot returns its row and column labels   *)
(* sorted.  sort_values is called with the default kind, quicksort, which  *)
(* promises no order among equal keys: the model lets it return any        *)
(* ascending order.                                                        *)
(***************************************************************************)
EXTENDS Integers, Sequences, FiniteSets, TLC

\* Largest number of points one classification row carries.
MaxPoints == 1

\* Driver codes, listed in the lexicographic order of the strings.
DriverCodes == <<"ALO", "BOT">>

\* Round numbers a schedule draws from.
Rounds == {1, 2}

EventFormats == {"conventional", "sprint_qualifying"}

SeqToSet(s) == {s[i] : i \in 1..Len(s)}

Drivers == SeqToSet(DriverCodes)

\* Sequences over S without repetition, of length 0..Cardinality(S).
Arrangements(S) ==
    UNION {{s \in [1..n -> S] : \A i, j \in 1..n : s[i] = s[j] => i = j}
           : n \in 0..Cardinality(S)}

-----------------------------------------------------------------------------
(* Event names *)

GrandPrix == <<"G","r","a","n","d"," ","P","r","i","x">>

\* The provider's name of the event of round r.
EventNameOf(r) ==
    IF r % 2 = 1
    THEN <<"M","o","n","a","c","o"," ">> \o GrandPrix
    ELSE GrandPrix \o <<" ","d","e"," ","P","a","u">>

StartsWith(s, old) ==
    /\ Len(s) >= Len(old)
    /\ SubSeq(s, 1, Len(old)) = old

\* str.replace(old, ""): every non-overlapping occurrence, left to right.
RECURSIVE Replace(_, _)
Replace(s, old) ==
    IF s = <<>> THEN <<>>
    ELSE IF StartsWith(s, old)
         THEN Replace(SubSeq(s, Len(old) + 1, Len(s)), old)
         ELSE <<Head(s)>> \o Replace(Tail(s), old)

RECURSIVE LStrip(_)
LStrip(s) ==
    IF s # <<>> /\ Head(s) = " " THEN LStrip(Tail(s)) ELSE s

RECURSIVE RStrip(_)
RStrip(s) ==
    IF s # <<>> /\ s[Len(s)] = " " THEN RStrip(SubSeq(s, 1, Len(s) - 1)) ELSE s

\* str.strip()
Strip(s) == RStrip(LStrip(s))

\* event_name.replace("Grand Prix", "").strip()
ShortName(event_name) == Strip(Replace(event_name, GrandPrix))

-----------------------------------------------------------------------------
(* The provider's answers *)

\* A classification: rows of distinct drivers in finishing order.
Classifications(points) ==
    UNION {{[k \in 1..Len(order) |->
                [Abbreviation |-> order[k], Points |-> p[k], Position |-> k]]
            : p \in [1..Len(order) -> points]}
           : order \in Arrangements(Drivers)}

\* The rows of a sprint classification only fill a dict keyed by driver, so
\* their order cannot show: they are drawn in one order, that of the codes.
SprintClassifications(points) ==
    {c \in Classifications(points) :
        \A k \in 1..(Len(c) - 1) :
            \E a, b \in 1..Len(DriverCodes) :
                /\ a < b
                /\ DriverCodes[a] = c[k].Abbreviation
                /\ DriverCodes[b] = c[k + 1].Abbreviation}

\* get_session + load: raises, or leaves results None, or a (maybe empty) table.
Session(classifications) ==
    {[raises |-> TRUE, is_none |-> FALSE, results |-> <<>>],
     [raises |-> FALSE, is_none |-> TRUE, results |-> <<>>]}
    \cup {[raises |-> FALSE, is_none |-> FALSE, results |-> c]
          : c \in classifications}

RaceSessions == Session(Classifications(0..MaxPoints))

SprintSessions == Session(SprintClassifications(1..MaxPoints))

\* The sprint session of an iteration that never asks for it.
NotFetched == [raises |-> FALSE, is_none |-> TRUE, results |-> <<>>]

Schedules ==
    UNION {{[k \in 1..Len(rs) |->
                [EventName |-> EventNameOf(rs[k]),
                 RoundNumber |-> rs[k],
                 EventFormat |-> f[k]]]
            : f \in [1..Len(rs) -> EventFormats]}
           : rs \in Arrangements(Rounds)}

-----------------------------------------------------------------------------
VARIABLES
    schedule,           \* the event schedule, in the provider's order
    sessions,           \* what the provider answered, per iteration done
    standings,          \* list of observation dicts
    short_event_names,  \* list of labels
    pc,                 \* "loop", "raised" or "returned"
    heatmap_data,       \* the sorted points frame
    total_points,       \* the totals series
    hover_info,         \* the position annotations
    fig                 \* the two heatmap traces

vars == <<schedule, sessions, standings, short_event_names, pc,
          heatmap_data, total_points, hover_info, fig>>

\* RaceUnavailable without the test for an empty table.
MutRaceUnavailable(race) == race.raises \/ race.is_none

\* race.results is None or race.results.empty, or the try block raised
RaceUnavailable(race) ==
    race.raises \/ race.is_none \/ race.results = <<>>

\* dict: a function on the keys set so far; later rows overwrite earlier ones.
RECURSIVE SprintRowsToDict(_)
SprintRowsToDict(rows) ==
    IF rows = <<>> THEN <<>>
    ELSE LET d == SprintRowsToDict(SubSeq(rows, 1, Len(rows) - 1))
             r == rows[Len(rows)]
         IN [a \in DOMAIN d \cup {r.Abbreviation} |->
                IF a = r.Abbreviation THEN r.Points ELSE d[a]]

EmptyDict == SprintRowsToDict(<<>>)

\* sprint_points_dict after the sprint block
SprintPointsDict(event, sprint) ==
    IF event.EventFormat = "sprint_qualifying"
    THEN IF sprint.raises THEN EmptyDict
         ELSE IF ~sprint.is_none /\ sprint.results # <<>>
              THEN SprintRowsToDict(sprint.results)
              ELSE EmptyDict
    ELSE EmptyDict

\* dict.get(key, default)
DictGet(d, key, default) == IF key \in DOMAIN d THEN d[key] ELSE default

\* EventRows with the sprint's points replacing the race's instead of adding.
MutEventRows(event, race, sprint_points_dict) ==
    [k \in 1..Len(race.results) |->
        LET driver_row == race.results[k]
        IN [EventName |-> event.EventName,
            RoundNumber |-> event.RoundNumber,
            Driver |-> driver_row.Abbreviation,
            Points |-> DictGet(sprint_points_dict, driver_row.Abbreviation,
                               driver_row.Points),
            Position |-> driver_row.Position]]

\* The dicts one iteration appends to standings.
EventRows(event, race, sprint_points_dict) ==
    [k \in 1..Len(race.results) |->
        LET driver_row == race.results[k]
            sprint_points == DictGet(sprint_points_dict, driver_row.Abbreviation, 0)
        IN [EventName |-> event.EventName,
            RoundNumber |-> event.RoundNumber,
            Driver |-> driver_row.Abbreviation,
            Points |-> driver_row.Points + sprint_points,
            Position |-> driver_row.Position]]

\* Iteration with the sprint fetch inside the race's try block: a sprint that
\* raises skips the event.
MutIteration(event, race, sprint) ==
    IF RaceUnavailable(race)
       \/ (event.EventFormat = "sprint_qualifying" /\ sprint.raises)
    THEN [names |-> <<>>, rows |-> <<>>]
    ELSE [names |-> <<ShortName(event.EventName)>>,
          rows |-> EventRows(event, race, SprintPointsDict(event, sprint))]

\* One iteration of the event loop: what it appends to the two lists.
Iteration(event, race, sprint) ==
    IF RaceUnavailable(race)
    THEN [names |-> <<>>, rows |-> <<>>]
    ELSE [names |-> <<ShortName(event.EventName)>>,
          rows |-> EventRows(event, race, SprintPointsDict(event, sprint))]

NoFrame == [index |-> <<>>, columns |-> <<>>, values |-> <<>>]
NoSeries == [index |-> <<>>, values |-> <<>>]
NoFigure == [x |-> <<>>, y |-> <<>>, z |-> <<>>, customdata |-> <<>>,
             totals_x |-> <<>>, totals_y |-> <<>>, totals_z |-> <<>>]

Init ==
    /\ schedule \in Schedules
    /\ sessions = <<>>
    /\ standings = <<>>
    /\ short_event_names = <<>>
    /\ pc = "loop"
    /\ heatmap_data = NoFrame
    /\ total_points = NoSeries
    /\ hover_info = <<>>
    /\ fig = NoFigure

\* for _, event in schedule.iterrows(): one iteration
ProcessEvent ==
    /\ pc = "loop"
    /\ Len(sessions) < Len(schedule)
    /\ LET event == schedule[Len(sessions) + 1] IN
       \E race \in RaceSessions :
       \E sprint \in IF ~RaceUnavailable(race)
                        /\ event.EventFormat = "sprint_qualifying"
                     THEN SprintSessions ELSE {NotFetched} :
          LET it == Iteration(event, race, sprint) IN
          /\ sessions' = Append(sessions, [R |-> race, S |-> sprint])
          /\ short_event_names' = short_event_names \o it.names
          /\ standings' = standings \o it.rows
    /\ UNCHANGED <<schedule, pc, heatmap_data, total_points, hover_info, fig>>

\* NoData as "nobody has scored yet".
MutNoData(df) == \A k \in 1..Len(df) : df[k].Points = 0

\* if not standings
NoData(df) == df = <<>>

\* raise ValueError(f"No race data available for {year} season yet")
RaiseNoData ==
    /\ pc = "loop"
    /\ Len(sessions) = Len(schedule)
    /\ NoData(standings)
    /\ pc' = "raised"
    /\ UNCHANGED <<schedule, sessions, standings, short_event_names,
                   heatmap_data, total_points, hover_info, fig>>

-----------------------------------------------------------------------------
(* The frames *)

NaN == [nan |-> TRUE]

RECURSIVE SortedInts(_)
SortedInts(S) ==
    IF S = {} THEN <<>>
    ELSE LET m == CHOOSE x \in S : \A y \in S : x <= y
         IN <<m>> \o SortedInts(S \ {m})

IsCodeIn(S) == [c \in Drivers |-> c \in S]

\* The codes of S in the lexicographic order of the strings.
SortedCodes(S) == LET in == IsCodeIn(S) IN SelectSeq(DriverCodes, LAMBDA c : in[c])

\* PivotIndex with a row for every driver code known to the provider.
MutPivotIndex(df) == SortedCodes(Drivers)

\* The row labels of df.pivot(index="Driver", ...): sorted unique drivers.
PivotIndex(df) == SortedCodes({df[k].Driver : k \in 1..Len(df)})

\* PivotColumns with a column for every round of the schedule.
MutPivotColumns(df) ==
    SortedInts({schedule[k].RoundNumber : k \in 1..Len(schedule)})

\* The column labels of df.pivot(columns="RoundNumber", ...): sorted unique rounds.
PivotColumns(df) == SortedInts({df[k].RoundNumber : k \in 1..Len(df)})

\* df.pivot(index="Driver", columns="RoundNumber", values=values)
Pivot(df, values) ==
    LET index == PivotIndex(df)
        columns == PivotColumns(df)
        Cell(d, r) ==
            LET ks == {k \in 1..Len(df) : df[k].Driver = d /\ df[k].RoundNumber = r}
            IN IF ks = {} THEN NaN ELSE [val |-> df[CHOOSE k \in ks : TRUE][values]]
    IN [index |-> index,
        columns |-> columns,
        values |-> [i \in 1..Len(index) |->
                      [j \in 1..Len(columns) |-> Cell(index[i], columns[j])]]]

\* frame.fillna(value)
Fillna(frame, value) ==
    [frame EXCEPT !.values =
        [i \in 1..Len(frame.index) |->
            [j \in 1..Len(frame.columns) |->
                IF frame.values[i][j] = NaN THEN value ELSE frame.values[i][j]]]]

RECURSIVE SumCells(_)
SumCells(row) ==
    IF row = <<>> THEN 0 ELSE Head(row).val + SumCells(Tail(row))

\* heatmap_data.sum(axis=1): one total per row, over the round columns
SumAxis1(frame) == [i \in 1..Len(frame.index) |-> SumCells(frame.values[i])]

\* SortOrders with ascending=False.
MutSortOrders(totals) ==
    {p \in Permutations(1..Len(totals)) :
        \A i \in 1..(Len(totals) - 1) : totals[p[i]] >= totals[p[i + 1]]}

\* The row orders sort_values(by="total_points", ascending=True) can give:
\* the default kind is quicksort, which is not stable, so rows with equal
\* totals come out in any order.
SortOrders(totals) ==
    {p \in Permutations(1..Len(totals)) :
        \A i \in 1..(Len(totals) - 1) : totals[p[i]] <= totals[p[i + 1]]}

\* Reorder with the totals taken before the sort: rows move, totals do not.
MutReorder(frame, totals, p) ==
    [index |-> [i \in 1..Len(p) |-> frame.index[p[i]]],
     columns |-> frame.columns,
     values |-> [i \in 1..Len(p) |-> frame.values[p[i]]],
     total_points |-> totals]

\* The frame with its rows, and the total_points column, taken in order p.
Reorder(frame, totals, p) ==
    [index |-> [i \in 1..Len(p) |-> frame.index[p[i]]],
     columns |-> frame.columns,
     values |-> [i \in 1..Len(p) |-> frame.values[p[i]]],
     total_points |-> [i \in 1..Len(p) |-> totals[p[i]]]]

\* heatmap_data["total_points"] = ...; heatmap_data.sort_values(...)
SortValues(frame) ==
    LET totals == SumAxis1(frame)
    IN {Reorder(frame, totals, p) : p \in SortOrders(totals)}

\* heatmap_data["total_points"] of the sorted frame
TotalPointsSeries(sorted) ==
    [index |-> sorted.index, values |-> sorted.total_points]

\* heatmap_data.drop(columns=["total_points"])
DropTotalPoints(sorted) ==
    [index |-> sorted.index, columns |-> sorted.columns, values |-> sorted.values]

\* PositionFill as for the points frame: fillna(0).
MutPositionFill == [val |-> 0]

\* The value position_data is filled with.
PositionFill == [str |-> "N/A"]

\* frame.at[row_label, column_label]
At(frame, d, r) ==
    LET i == CHOOSE i \in 1..Len(frame.index) : frame.index[i] = d
        j == CHOOSE j \in 1..Len(frame.columns) : frame.columns[j] = r
    IN frame.values[i][j]

\* hover_info: per row of heatmap_data, per column, the position annotation
HoverInfo(position_data, frame) ==
    [i \in 1..Len(frame.index) |->
        [j \in 1..Len(frame.columns) |->
            [position |-> At(position_data, frame.index[i], frame.columns[j])]]]

\* heatmap_data.values: the numeric matrix
Values(frame) ==
    [i \in 1..Len(frame.index) |->
        [j \in 1..Len(frame.columns) |-> frame.values[i][j].val]]

\* The two go.Heatmap traces.
Figure(names, frame, totals, hover) ==
    [x |-> names,
     y |-> frame.index,
     z |-> Values(frame),
     customdata |-> hover,
     totals_x |-> [k \in 1..Len(totals.values) |-> "Total Points"],
     totals_y |-> frame.index,
     totals_z |-> totals.values]

\* Everything after the loop when standings is not empty.
BuildFigure ==
    /\ pc = "loop"
    /\ Len(sessions) = Len(schedule)
    /\ ~NoData(standings)
    /\ LET df == standings
           position_data == Fillna(Pivot(df, "Position"), PositionFill)
       IN \E sorted \in SortValues(Fillna(Pivot(df, "Points"), [val |-> 0])) :
            /\ heatmap_data' = DropTotalPoints(sorted)
            /\ total_points' = TotalPointsSeries(sorted)
            /\ hover_info' = HoverInfo(position_data, heatmap_data')
            /\ fig' = Figure(short_event_names, heatmap_data', total_points', hover_info')
    /\ pc' = "returned"
    /\ UNCHANGED <<schedule, sessions, standings, short_event_names>>

Next == ProcessEvent \/ RaiseNoData \/ BuildFigure

Spec == Init /\ [][Next]_vars
-----------------------------------------------------------------------------
(* What the provider answered, read off the recorded sessions *)

Processed == 1..Len(sessions)

\* The main classification of iteration k was fetched without error and is
\* not empty.
HasMain(k) ==
    /\ ~sessions[k].R.raises
    /\ ~sessions[k].R.is_none
    /\ sessions[k].R.results # <<>>

MainRows(k) == sessions[k].R.results

MainDrivers(k) == {MainRows(k)[j].Abbreviation : j \in 1..Len(MainRows(k))}

IsSprintFormat(k) == schedule[k].EventFormat = "sprint_qualifying"

\* The secondary classification of iteration k is there to be added.
HasSecondary(k) ==
    /\ IsSprintFormat(k)
    /\ ~sessions[k].S.raises
    /\ ~sessions[k].S.is_none
    /\ sessions[k].S.results # <<>>

SecondaryRows(k) == IF HasSecondary(k) THEN sessions[k].S.results ELSE <<>>

SecondaryDrivers(k) ==
    {SecondaryRows(k)[j].Abbreviation : j \in 1..Len(SecondaryRows(k))}

SecondaryPoints(k, d) ==
    IF d \in SecondaryDrivers(k)
    THEN SecondaryRows(k)[CHOOSE j \in 1..Len(SecondaryRows(k)) :
                            SecondaryRows(k)[j].Abbreviation = d].Points
    ELSE 0

IncludedEvents == {k \in Processed : HasMain(k)}

IncludedRounds == {schedule[k].RoundNumber : k \in IncludedEvents}

IncludedDrivers == UNION {MainDrivers(k) : k \in IncludedEvents}

\* The iteration that handled round r.
EventOfRound(r) == CHOOSE k \in 1..Len(schedule) : schedule[k].RoundNumber = r

\* The observations of (round, driver) in the accumulated standings.
Observations(r, d) ==
    {n \in 1..Len(standings) :
        standings[n].RoundNumber = r /\ standings[n].Driver = d}

RECURSIVE SumOver(_, _)
SumOver(f, S) ==
    IF S = {} THEN 0
    ELSE LET x == CHOOSE x \in S : TRUE IN f[x] + SumOver(f, S \ {x})

\* The season total of driver d, from the provider's answers.
SeasonTotal(d) ==
    SumOver([k \in IncludedEvents |->
                IF d \in MainDrivers(k)
                THEN MainRows(k)[CHOOSE j \in 1..Len(MainRows(k)) :
                                   MainRows(k)[j].Abbreviation = d].Points
                     + SecondaryPoints(k, d)
                ELSE 0],
            IncludedEvents)

RECURSIVE SumSeq(_)
SumSeq(s) == IF s = <<>> THEN 0 ELSE Head(s) + SumSeq(Tail(s))

IsPrefix(s, t) == Len(s) <= Len(t) /\ SubSeq(t, 1, Len(s)) = s

NoRepeats(s) == \A i, j \in 1..Len(s) : s[i] = s[j] => i = j

-----------------------------------------------------------------------------
(* Claims *)

\* C1: when the function returns, the columns of the points matrix are
\* exactly the round numbers of the events whose main classification was
\* fetched without error and is not empty, each once; an event whose main
\* classification is absent, empty or failed to load has no column.
C1_ColumnsAreIncludedRounds ==
    pc = "returned" =>
        /\ SeqToSet(heatmap_data.columns) = IncludedRounds
        /\ NoRepeats(heatmap_data.columns)
        /\ \A i \in 1..Len(fig.z) : Len(fig.z[i]) = Cardinality(IncludedRounds)

\* A returned run over two events, one excluded and one included.
C1_Witness ==
    /\ pc = "returned"
    /\ Len(schedule) = 2
    /\ \E k \in Processed : ~HasMain(k)
    /\ \E k \in Processed : HasMain(k)

\* C2: for every included event and every row of its main classification
\* there is exactly one observation, whose points are the main points plus
\* the same driver's secondary points when the event is of sprint format and
\* the driver is in the secondary classification, the main points alone
\* otherwise, and whose position is the main classification's position.
C2_CombinedPoints ==
    \A k \in IncludedEvents : \A j \in 1..Len(MainRows(k)) :
        LET row == MainRows(k)[j]
            obs == Observations(schedule[k].RoundNumber, row.Abbreviation)
        IN /\ Cardinality(obs) = 1
           /\ \A n \in obs :
                /\ standings[n].Points =
                     row.Points + SecondaryPoints(k, row.Abbreviation)
                /\ ~(HasSecondary(k) /\ row.Abbreviation \in SecondaryDrivers(k))
                     => standings[n].Points = row.Points
                /\ standings[n].Position = row.Position

\* A sprint event where one driver is in both classifications, at different
\* positions, and the other only in the main one.
C2_Witness ==
    \E k \in IncludedEvents :
        /\ HasSecondary(k)
        /\ Len(MainRows(k)) = 2
        /\ MainRows(k)[2].Abbreviation \in SecondaryDrivers(k)
        /\ MainRows(k)[1].Abbreviation \notin SecondaryDrivers(k)
        /\ MainRows(k)[2].Points > 0

\* C3: a sprint-format event with a non-empty main classification whose
\* secondary fetch raises, or gives no or an empty classification, is still
\* included: it has its label, every driver of its main classification has
\* an observation with the main points alone, the run does not fail, and the
\* returned matrix has its column.
C3_SecondaryUnavailable ==
    \A k \in IncludedEvents :
        IsSprintFormat(k) /\ ~HasSecondary(k) =>
            /\ Len(short_event_names) = Cardinality(IncludedEvents)
            /\ short_event_names[Cardinality({m \in IncludedEvents : m <= k})]
                 = ShortName(schedule[k].EventName)
            /\ \A j \in 1..Len(MainRows(k)) :
                 \E n \in Observations(schedule[k].RoundNumber,
                                       MainRows(k)[j].Abbreviation) :
                    standings[n].Points = MainRows(k)[j].Points
            /\ pc # "raised"
            /\ pc = "returned" =>
                 schedule[k].RoundNumber \in SeqToSet(heatmap_data.columns)

\* A returned run over two included sprint events: the secondary fetch of
\* one raised, that of the other gave no or an empty classification.
C3_Witness ==
    /\ pc = "returned"
    /\ \E k \in IncludedEvents :
         /\ IsSprintFormat(k)
         /\ sessions[k].S.raises
         /\ \E j \in 1..Len(MainRows(k)) : MainRows(k)[j].Points > 0
    /\ \E k \in IncludedEvents :
         /\ IsSprintFormat(k)
         /\ ~sessions[k].S.raises
         /\ ~HasSecondary(k)

\* C4: the run ends in the no-data error only when the loop is over and no
\* event had a usable main classification, and it returns only when some
\* event had one: a run that met a usable main classification never fails.
C4_NoDataExactly ==
    /\ pc = "raised" =>
         /\ Len(sessions) = Len(schedule)
         /\ IncludedEvents = {}
    /\ pc = "returned" =>
         /\ Len(sessions) = Len(schedule)
         /\ IncludedEvents # {}
    /\ IncludedEvents # {} => pc # "raised"

\* The error after a schedule whose two events were both unusable, one by
\* an exception and one by an empty classification.
C4_Witness ==
    /\ pc = "raised"
    /\ Len(schedule) = 2
    /\ \E k \in Processed : sessions[k].R.raises
    /\ \E k \in Processed :
         ~sessions[k].R.raises /\ ~sessions[k].R.is_none

\* C5: the labels handed to the heatmap are aligned with the columns of the
\* matrix: the i-th label is the shortened name of the event whose round
\* number is the i-th column, whatever the order of the schedule.
C5_LabelsAligned ==
    pc = "returned" =>
        /\ Len(fig.x) = Len(heatmap_data.columns)
        /\ \A i \in 1..Len(fig.x) :
             fig.x[i] =
               ShortName(schedule[EventOfRound(heatmap_data.columns[i])].EventName)

\* The first index of standings that observes driver d.
FirstObserved(d) ==
    CHOOSE n \in 1..Len(standings) :
        /\ standings[n].Driver = d
        /\ \A m \in 1..(n - 1) : standings[m].Driver # d

\* C6 as stated: rows ascend by total and rows with equal totals keep the
\* order in which their drivers were first observed.
C6_StableByFirstObserved ==
    pc = "returned" =>
        \A i, j \in 1..Len(fig.y) :
            i < j =>
                /\ SeasonTotal(fig.y[i]) <= SeasonTotal(fig.y[j])
                /\ SeasonTotal(fig.y[i]) = SeasonTotal(fig.y[j]) =>
                     FirstObserved(fig.y[i]) < FirstObserved(fig.y[j])

\* C6 as amended: the rows are the drivers, each once, in an order that
\* ascends by season total.
C6_AscendingByTotal ==
    pc = "returned" =>
        /\ NoRepeats(fig.y)
        /\ \A i, j \in 1..Len(fig.y) :
             i < j => SeasonTotal(fig.y[i]) <= SeasonTotal(fig.y[j])

\* The sort moved a row: the lexicographically later driver has the smaller
\* total and comes first.
C6_Witness ==
    /\ pc = "returned"
    /\ fig.y = <<DriverCodes[2], DriverCodes[1]>>
    /\ SeasonTotal(DriverCodes[2]) < SeasonTotal(DriverCodes[1])

MainPositionOf(k, d) ==
    MainRows(k)[CHOOSE j \in 1..Len(MainRows(k)) :
                  MainRows(k)[j].Abbreviation = d].Position

\* C7: in the returned figure, a cell of a driver who is not in the main
\* classification of the column's round holds 0 points and the annotation
\* "N/A", which is no number; a cell of a driver who is holds the main
\* classification's position as its annotation.
C7_AbsentCells ==
    pc = "returned" =>
        \A i \in 1..Len(fig.y) : \A j \in 1..Len(heatmap_data.columns) :
            LET k == EventOfRound(heatmap_data.columns[j])
                d == fig.y[i]
                note == fig.customdata[i][j].position
            IN IF d \in MainDrivers(k)
               THEN note = [val |-> MainPositionOf(k, d)]
               ELSE /\ fig.z[i][j] = 0
                    /\ note = [str |-> "N/A"]
                    /\ DOMAIN note # {"val"}

\* A returned figure with a driver missing from one of two included rounds.
C7_Witness ==
    /\ pc = "returned"
    /\ Len(heatmap_data.columns) = 2
    /\ \E i \in 1..Len(fig.y) : \E k \in IncludedEvents :
         /\ fig.y[i] \notin MainDrivers(k)
         /\ SeasonTotal(fig.y[i]) > 0

\* C8: each total is the sum of its row of the matrix, and the totals trace
\* is aligned with the rows: the k-th total is the season total of the k-th
\* row label.
C8_TotalsAligned ==
    pc = "returned" =>
        /\ Len(fig.totals_z) = Len(fig.y)
        /\ fig.totals_y = fig.y
        /\ total_points.index = heatmap_data.index
        /\ \A k \in 1..Len(fig.y) :
             /\ fig.totals_z[k] = SumSeq(fig.z[k])
             /\ fig.totals_z[k] = SeasonTotal(fig.y[k])
             /\ Len(fig.z[k]) = Len(heatmap_data.columns)

\* Two rounds, two drivers with different totals, and the sort moved a row.
C8_Witness ==
    /\ pc = "returned"
    /\ Len(heatmap_data.columns) = 2
    /\ fig.y = <<DriverCodes[2], DriverCodes[1]>>
    /\ fig.totals_z[1] < fig.totals_z[2]
    /\ fig.totals_z[1] > 0

\* C9: the rows of the returned figure are the drivers of the main
\* classifications of the included events, each once and each as wide as
\* the included rounds; a driver met only in a secondary classification has
\* no row.
C9_RowsAreMainDrivers ==
    pc = "returned" =>
        /\ SeqToSet(fig.y) = IncludedDrivers
        /\ NoRepeats(fig.y)
        /\ Len(fig.z) = Len(fig.y)
        /\ Len(fig.customdata) = Len(fig.y)
        /\ \A i \in 1..Len(fig.y) :
             /\ Len(fig.z[i]) = Cardinality(IncludedRounds)
             /\ Len(fig.customdata[i]) = Cardinality(IncludedRounds)

\* Two included rounds and a driver who scored in a secondary classification
\* but is in no main classification: the figure has the other driver's row
\* alone, two cells wide.
C9_Witness ==
    /\ pc = "returned"
    /\ Cardinality(IncludedRounds) = 2
    /\ \E k \in IncludedEvents : \E d \in SecondaryDrivers(k) :
         /\ d \notin IncludedDrivers
         /\ SecondaryPoints(k, d) > 0
    /\ Len(fig.y) = 1
    /\ Len(fig.z[1]) = 2

\* The two lists a run over the first n events of the schedule accumulates.
RECURSIVE Accumulated(_, _, _)
Accumulated(sched, sess, n) ==
    IF n = 0 THEN [names |-> <<>>, rows |-> <<>>]
    ELSE LET before == Accumulated(sched, sess, n - 1)
             it == Iteration(sched[n], sess[n].R, sess[n].S)
         IN [names |-> before.names \o it.names,
             rows |-> before.rows \o it.rows]

\* C10: every step keeps what was accumulated as a prefix of what is
\* accumulated after it; an iteration over an excluded event leaves both
\* lists as they were; after every step the lists are those of a run over
\* the events processed so far, and there are as many labels as included
\* events.
C10_Incremental ==
    [][/\ IsPrefix(standings, standings')
       /\ IsPrefix(short_event_names, short_event_names')
       /\ (Len(sessions') = Len(sessions) + 1
           /\ (sessions'[Len(sessions')].R.raises
               \/ sessions'[Len(sessions')].R.is_none
               \/ sessions'[Len(sessions')].R.results = <<>>))
          => (standings' = standings
              /\ short_event_names' = short_event_names)
       /\ standings' = Accumulated(schedule', sessions', Len(sessions')).rows
       /\ short_event_names'
            = Accumulated(schedule', sessions', Len(sessions')).names
       /\ Len(short_event_names')
            = Cardinality({k \in 1..Len(sessions') :
                             /\ ~sessions'[k].R.raises
                             /\ ~sessions'[k].R.is_none
                             /\ sessions'[k].R.results # <<>>})
      ]_vars

\* An included event followed by an excluded one, with the first one's
\* observations and label still there.
C10_Witness ==
    /\ Len(sessions) = 2
    /\ HasMain(1)
    /\ ~HasMain(2)
    /\ sessions[2].R.results = <<>>
    /\ ~sessions[2].R.is_none
    /\ ~sessions[2].R.raises
    /\ Len(standings) = 2
    /\ Len(short_event_names) = 1

=============================================================================
